---- MODULE Spec2Model ----
(***************************************************************************)
(* PagureProject (ogr/services/pagure/project.py): the project-level       *)
(* client of the Pagure forge.  A handle names a project; every method     *)
(* builds a URL, hands one or more requests to the service and reshapes    *)
(* the answer.  The forge and the service are the environment: `forge`     *)
(* holds what the forge answers, `sent` and `posted` what the client has   *)
(* asked of it.                                                            *)
(*                                                                         *)
(* Text is a TLA+ string; an Optional value is None (<<>>) or Some(x)      *)
(* (<<x>>), so that Python's None, "" and 0 stay distinct values.          *)
(*                                                                         *)
(* Every method is one action, except get_fork, whose steps (fork check,   *)
(* scan, probe, last step) are one action each.  The methods are grouped   *)
(* into one specification per area, each starting from every handle and    *)
(* forge state of that area within the bounds:                             *)
(*   SpecUrl     _get_project_url                                          *)
(*   SpecWrite   create_issue, create_pr, fork_create, set_commit_status   *)
(*   SpecAccess  who_can_close_issue, who_can_merge_pr, can_merge_pr       *)
(*   SpecTags    get_tags, get_tags_dict, get_sha_from_tag                 *)
(*   SpecFile    get_file_content                                          *)
(*   SpecFork    get_fork                                                  *)
(***************************************************************************)
EXTENDS Naturals, Sequences, FiniteSets, TLC

VARIABLES
    read_only,  \* service.read_only, copied to the handle by __init__
    handle,     \* the PagureProject: repo, namespace, _username, _is_fork
    forge,      \* what the forge answers to this client's requests
    calls,      \* per method: its last call (arguments, requests, outcome)
    posted,     \* URLs of every POST issued since construction
    pc,         \* position of the running get_fork call
    frame       \* locals of the running get_fork call

vars == <<read_only, handle, forge, calls, posted, pc, frame>>

-----------------------------------------------------------------------------
(* Bounds of the model *)

\* longest sequence of extra path segments given to _get_project_url
MaxSegs == 2
\* most users listed at one access level of the project info
MaxAccess == 1
\* most tags in the forge's tags response
MaxTags == 2
\* longest raw file content, in bytes
MaxContent == 2
\* most projects in the forge's fork-search response
MaxForks == 2

-----------------------------------------------------------------------------
(* Values *)

None == <<>>
Some(x) == <<x>>
IsNone(o) == o = None
Val(o) == o[1]

\* Python truthiness of an Optional[str]: None and "" are falsy
TruthyStr(o) == o # None /\ Val(o) # ""
\* Python truthiness of an Optional[int]: None and 0 are falsy
TruthyInt(o) == o # None /\ Val(o) # 0

\* Python's `a in b` on two strings
StrIn(a, b) ==
    \E i \in 0..(Len(b) - Len(a)) : SubSeq(b, i + 1, i + Len(a)) = a

\* "/".join(parts)
RECURSIVE Join(_)
Join(parts) ==
    IF parts = <<>> THEN ""
    ELSE IF Len(parts) = 1 THEN parts[1]
    ELSE parts[1] \o "/" \o Join(Tail(parts))

\* filter(lambda x: x is not None, args)
RECURSIVE DropNone(_)
DropNone(opts) ==
    IF opts = <<>> THEN <<>>
    ELSE IF IsNone(Head(opts)) THEN DropNone(Tail(opts))
    ELSE <<Val(Head(opts))>> \o DropNone(Tail(opts))

\* sequences over S of length at most n
SeqUpTo(S, n) == UNION {[1..k -> S] : k \in 0..n}

\* sequences over S of length at most n without a repeated element
DistinctSeqUpTo(S, n) ==
    {s \in SeqUpTo(S, n) : \A i, j \in 1..Len(s) : i # j => s[i] # s[j]}

\* subsets of S of at most n elements
SubsetsUpTo(S, n) == {T \in SUBSET S : Cardinality(T) <= n}

Range(s) == {s[i] : i \in 1..Len(s)}

-----------------------------------------------------------------------------
(* The service: URLs and requests *)

instance_url == "https://h"
api_url == instance_url \o "/api/0/"

\* service.get_api_url(*args, add_api_endpoint_part): absent parts are
\* dropped, the others joined with "/" behind the API or the instance base
get_api_url(parts, add_api_endpoint_part) ==
    IF add_api_endpoint_part
    THEN api_url \o Join(DropNone(parts))
    ELSE instance_url \o "/" \o Join(DropNone(parts))

Request(method, url, data) == [method |-> method, url |-> url, data |-> data]

NoData == [k \in {} |-> None]

-----------------------------------------------------------------------------
(* The handle *)

PagureProject(repo, namespace, username, is_fork) ==
    [repo |-> repo, namespace |-> namespace,
     username |-> username, is_fork |-> is_fork]

\* the _user property: the handle's username, resolved from the session
\* when it is unset
user_of(h) ==
    IF ~TruthyStr(h.username) THEN forge.user ELSE Val(h.username)

\* the handle after the _user property has run: the username is cached
user_cached(h) == [h EXCEPT !.username = Some(user_of(h))]

\* a slip: the fork prefix is added whenever the caller asks for it, also
\* on a handle that is no fork
project_url_parts_any_handle(h, args, add_fork_part) ==
    (IF add_fork_part
     THEN <<Some("fork"), Some(user_of(h))>> ELSE <<>>)
    \o <<h.namespace, Some(h.repo)>>
    \o [i \in 1..Len(args) |-> Some(args[i])]

\* a slip: the fork prefix is added on every fork handle, whatever the
\* caller asks for
project_url_parts_always(h, args, add_fork_part) ==
    (IF h.is_fork
     THEN <<Some("fork"), Some(user_of(h))>> ELSE <<>>)
    \o <<h.namespace, Some(h.repo)>>
    \o [i \in 1..Len(args) |-> Some(args[i])]

\* the parts _get_project_url hands to get_api_url
project_url_parts(h, args, add_fork_part) ==
    (IF h.is_fork /\ add_fork_part
     THEN <<Some("fork"), Some(user_of(h))>> ELSE <<>>)
    \o <<h.namespace, Some(h.repo)>>
    \o [i \in 1..Len(args) |-> Some(args[i])]

get_project_url(h, args, add_fork_part, add_api_endpoint_part) ==
    get_api_url(project_url_parts(h, args, add_fork_part),
                add_api_endpoint_part)

\* the handle after _get_project_url: _user ran only on the fork branch
after_project_url(h, add_fork_part) ==
    IF h.is_fork /\ add_fork_part THEN user_cached(h) ELSE h

-----------------------------------------------------------------------------
(* Calls *)

Methods ==
    {"_get_project_url", "create_issue", "create_pr", "fork_create",
     "set_commit_status", "who_can_close_issue", "who_can_merge_pr",
     "can_merge_pr", "get_tags", "get_tags_dict", "get_sha_from_tag",
     "get_file_content", "get_fork"}

NoCall == [done |-> FALSE]

\* a finished call: the handle it ran on, its arguments, the requests it
\* issued in order, and how it ended
Returned(h, args, sent, value) ==
    [done |-> TRUE, self |-> h, args |-> args, sent |-> sent,
     outcome |-> "return", value |-> value]

Raised(h, args, sent, error) ==
    [done |-> TRUE, self |-> h, args |-> args, sent |-> sent,
     outcome |-> "raise", value |-> error]

\* the URLs of the POST requests among sent
PostUrls(sent) == {sent[i].url : i \in {j \in 1..Len(sent) : sent[j].method = "POST"}}

\* a call of method m ends as record c
Finish(m, c) ==
    /\ calls' = [calls EXCEPT ![m] = c]
    /\ posted' = posted \cup PostUrls(c.sent)

-----------------------------------------------------------------------------
(* The forge *)

Users == {"al", "alan"}

ForgeDefault ==
    [user |-> "al",
     access_users |-> [l \in {"admin", "commit", "ticket", "owner"} |-> {}],
     tags |-> <<>>,
     raw |-> [kind |-> "absent"],
     projects |-> <<>>,
     fork_ok |-> FALSE,
     fork_parent |-> "none"]

HandleDefault == PagureProject("repo", Some("ns"), None, FALSE)

-----------------------------------------------------------------------------
(* URL construction *)

Repos == {"repo", "fork"}
Namespaces == {None, Some("ns"), Some("fork")}
Usernames == {None, Some(""), Some("al"), Some("alan")}
Segments == {"git", "fork"}

_get_project_url(args, add_fork_part, add_api_endpoint_part) ==
    /\ pc = "idle"
    /\ Finish("_get_project_url",
              Returned(handle,
                       [args |-> args, add_fork_part |-> add_fork_part,
                        add_api_endpoint_part |-> add_api_endpoint_part],
                       <<>>,
                       get_project_url(handle, args, add_fork_part,
                                       add_api_endpoint_part)))
    /\ handle' = after_project_url(handle, add_fork_part)
    /\ UNCHANGED <<read_only, forge, pc, frame>>

InitUrl ==
    /\ read_only = FALSE
    /\ handle \in {PagureProject(r, n, u, f) :
                      r \in Repos, n \in Namespaces, u \in Usernames,
                      f \in BOOLEAN}
    /\ forge \in {[ForgeDefault EXCEPT !.user = u] : u \in Users}
    /\ calls = [m \in Methods |-> NoCall]
    /\ posted = {}
    /\ pc = "idle"
    /\ frame = None

NextUrl ==
    \E args \in SeqUpTo(Segments, MaxSegs), afp \in BOOLEAN, aaep \in BOOLEAN :
        _get_project_url(args, afp, aaep)

SpecUrl == InitUrl /\ [][NextUrl]_vars

UrlCall == calls["_get_project_url"]

\* the base a URL starts with
BaseOf(add_api_endpoint_part) ==
    IF add_api_endpoint_part THEN "https://h/api/0/" ELSE "https://h/"

\* "/s1/s2/..." for the given segments
RECURSIVE SlashEach(_)
SlashEach(segs) ==
    IF segs = <<>> THEN "" ELSE "/" \o Head(segs) \o SlashEach(Tail(segs))

\* <namespace>/<repo>/<segments...>, the namespace left out when absent
PlainPath(h, segs) ==
    (IF h.namespace = None THEN "" ELSE Val(h.namespace) \o "/")
    \o h.repo \o SlashEach(segs)

\* the user a fork prefix names: the handle's username, or the session's
\* when the handle has none
PrefixUser(h) ==
    IF h.username \in {None, Some("")} THEN forge.user ELSE Val(h.username)

\* C2 as stated: on a handle with is_fork=false the URL holds no `fork/`
\* segment, for every namespace, repo, segments and add_fork_part.
C2_NoForkSegment ==
    (UrlCall.done /\ ~UrlCall.self.is_fork)
        => ~StrIn("/fork/", UrlCall.value)

\* C2 amended: on a handle with is_fork=false the URL is the base followed
\* by exactly namespace (when set), repo and the given segments, for both
\* values of add_fork_part: no fork prefix is added, and a `fork/` segment
\* occurs only where the namespace, the repo or a given segment supplies it.
C2_NoForkPrefixAdded ==
    (UrlCall.done /\ ~UrlCall.self.is_fork)
        => /\ UrlCall.value =
                BaseOf(UrlCall.args.add_api_endpoint_part)
                \o PlainPath(UrlCall.self, UrlCall.args.args)
           /\ StrIn("/fork/", UrlCall.value)
                => \/ UrlCall.self.namespace = Some("fork")
                   \/ UrlCall.self.repo = "fork"
                   \/ "fork" \in Range(UrlCall.args.args)
           /\ handle = UrlCall.self

C2_Witness ==
    /\ UrlCall.done /\ ~UrlCall.self.is_fork
    /\ UrlCall.args.add_fork_part
    /\ UrlCall.self.namespace = Some("ns") /\ UrlCall.self.repo = "repo"
    /\ UrlCall.args.args = <<"git", "git">>
    /\ UrlCall.value = "https://h/api/0/ns/repo/git/git"

\* C3: on a handle with is_fork=true, add_fork_part=true gives the path
\* fork/<username>/<namespace>/<repo>/<segments...> and add_fork_part=false
\* gives the path without the fork prefix, starting at the namespace.
C3_ForkPrefix ==
    (UrlCall.done /\ UrlCall.self.is_fork)
        => IF UrlCall.args.add_fork_part
           THEN /\ UrlCall.value =
                     BaseOf(UrlCall.args.add_api_endpoint_part)
                     \o "fork/" \o PrefixUser(UrlCall.self) \o "/"
                     \o PlainPath(UrlCall.self, UrlCall.args.args)
                /\ handle.username = Some(PrefixUser(UrlCall.self))
           ELSE UrlCall.value =
                     BaseOf(UrlCall.args.add_api_endpoint_part)
                     \o PlainPath(UrlCall.self, UrlCall.args.args)

C3_Witness ==
    /\ UrlCall.done /\ UrlCall.self.is_fork
    /\ UrlCall.args.add_fork_part
    /\ UrlCall.self.username = None /\ forge.user = "alan"
    /\ UrlCall.args.args = <<"git", "fork">>
    /\ UrlCall.value = "https://h/api/0/fork/alan/ns/repo/git/fork"

-----------------------------------------------------------------------------
(* Write operations *)

\* the if_readonly decorator: the real method on a writable client, the
\* read-only substitute's result otherwise
if_readonly(real, substitute) == IF ~read_only THEN real ELSE substitute

\* what GitProjectReadOnly.<method> returns: it issues no request
ReadOnlyResult(method, h, args) ==
    Returned(h, args, <<>>, [read_only_substitute |-> method])

\* _call_project_api(*segs, method=..., data=...): the request it issues
project_api_request(h, segs, method, data) ==
    Request(method, get_project_url(h, segs, TRUE, TRUE), data)

\* PagureIssue.create: POST new_issue
PagureIssue_create(h, title, body) ==
    Returned(h, [title |-> title, body |-> body],
             <<project_api_request(h, <<"new_issue">>, "POST",
                   [title |-> title, issue_content |-> body])>>,
             [issue |-> title])

\* PagurePullRequest.create: POST pull-request/new
PagurePullRequest_create(h, args) ==
    Returned(h, args,
             <<project_api_request(h, <<"pull-request", "new">>, "POST",
                   [title |-> args.title, initial_comment |-> args.body,
                    branch_to |-> args.target_branch,
                    branch_from |-> args.source_branch])>>,
             [pull_request |-> args.title])

_construct_fork_project(h) ==
    PagureProject(h.repo, h.namespace, Some(user_of(h)), TRUE)

\* the body of fork_create
fork_create_body(h) ==
    Returned(h, <<>>,
             <<Request("POST", get_api_url(<<Some("fork")>>, TRUE),
                       [repo |-> h.repo, namespace |-> h.namespace,
                        wait |-> TRUE])>>,
             _construct_fork_project(h))

\* the forge's answer to a flag POST: the flag echoed, and its uid (the
\* given one, or one the forge assigns)
FlagResponse(commit, data) ==
    [flag |-> [commit_hash |-> commit, comment |-> data["comment"],
               status |-> data["status"], username |-> data["username"],
               url |-> data["url"]],
     uid |-> IF "uid" \in DOMAIN data THEN data["uid"] ELSE "uid0"]

_commit_status_from_pagure_dict(status_dict, uid) ==
    [commit |-> status_dict.commit_hash, comment |-> status_dict.comment,
     state |-> status_dict.status, context |-> status_dict.username,
     url |-> status_dict.url, uid |-> uid]

\* the POST body set_commit_status builds
commit_status_data(a) ==
    [username |-> a.context, comment |-> a.description,
     url |-> a.target_url, status |-> a.state]
    @@ (IF TruthyInt(a.percent) THEN "percent" :> Val(a.percent) ELSE NoData)
    @@ (IF TruthyStr(a.uid) THEN "uid" :> Val(a.uid) ELSE NoData)

\* the body of set_commit_status
set_commit_status_body(h, a) ==
    LET data == commit_status_data(a)
        response == FlagResponse(a.commit, data)
    IN  Returned(h, a,
                 <<project_api_request(h, <<"c", a.commit, "flag">>, "POST",
                                       data)>>,
                 _commit_status_from_pagure_dict(response.flag,
                                                 Some(response.uid)))

create_issue(title, body) ==
    /\ pc = "idle"
    /\ Finish("create_issue", PagureIssue_create(handle, title, body))
    /\ handle' = after_project_url(handle, TRUE)
    /\ UNCHANGED <<read_only, forge, pc, frame>>

create_pr(args) ==
    /\ pc = "idle"
    /\ Finish("create_pr",
              if_readonly(PagurePullRequest_create(handle, args),
                          ReadOnlyResult("create_pr", handle, args)))
    /\ handle' = if_readonly(after_project_url(handle, TRUE), handle)
    /\ UNCHANGED <<read_only, forge, pc, frame>>

fork_create ==
    /\ pc = "idle"
    /\ Finish("fork_create",
              if_readonly(fork_create_body(handle),
                          ReadOnlyResult("fork_create", handle, <<>>)))
    /\ handle' = if_readonly(user_cached(handle), handle)
    /\ UNCHANGED <<read_only, forge, pc, frame>>

set_commit_status(a) ==
    /\ pc = "idle"
    /\ Finish("set_commit_status",
              if_readonly(set_commit_status_body(handle, a),
                          ReadOnlyResult("set_commit_status", handle, a)))
    /\ handle' = if_readonly(after_project_url(handle, TRUE), handle)
    /\ UNCHANGED <<read_only, forge, pc, frame>>

PrArgs ==
    [title : {"t"}, body : {"b"}, target_branch : {"master"},
     source_branch : {"dev"}, fork_username : {None}]

StatusArgs ==
    [commit : {"sha1"}, state : {"success", "failure"}, target_url : {"u"},
     description : {"d"}, context : {"ctx"},
     percent : {None, Some(0), Some(50)}, uid : {None, Some("id1")}]

InitWrite ==
    /\ read_only \in BOOLEAN
    /\ handle \in {PagureProject("repo", Some("ns"), u, f) :
                      u \in {None, Some("alan")}, f \in BOOLEAN}
    /\ forge = ForgeDefault
    /\ calls = [m \in Methods |-> NoCall]
    /\ posted = {}
    /\ pc = "idle"
    /\ frame = None

NextWrite ==
    \/ create_issue("t", "b")
    \/ \E args \in PrArgs : create_pr(args)
    \/ fork_create
    \/ \E a \in StatusArgs : set_commit_status(a)

SpecWrite == InitWrite /\ [][NextWrite]_vars

StatusCall == calls["set_commit_status"]

\* C1: on a read-only client no call of create_issue, create_pr, fork_create
\* or set_commit_status issues a POST: each returns the read-only
\* substitute's result.
C1_ReadOnlyNeverPosts ==
    read_only =>
        /\ posted = {}
        /\ \A m \in {"create_issue", "create_pr", "fork_create",
                       "set_commit_status"} :
               calls[m].done =>
                   /\ calls[m].outcome = "return"
                   /\ calls[m].sent = <<>>
                   /\ calls[m].value = [read_only_substitute |-> m]

\* C4: the flag POST body always has username, comment, url and status,
\* has `percent` exactly when a percent was provided and `uid` exactly when
\* a uid was provided (4 keys when neither was).
C4_FlagBody ==
    (StatusCall.done /\ ~read_only) =>
        /\ Len(StatusCall.sent) = 1
        /\ StatusCall.sent[1].method = "POST"
        /\ StrIn("/c/" \o StatusCall.args.commit \o "/flag",
                 StatusCall.sent[1].url)
        /\ LET data == StatusCall.sent[1].data
               a == StatusCall.args
           IN  /\ DOMAIN data =
                    {"username", "comment", "url", "status"}
                    \cup (IF a.percent # None THEN {"percent"} ELSE {})
                    \cup (IF a.uid # None THEN {"uid"} ELSE {})
               /\ data["username"] = a.context
               /\ data["comment"] = a.description
               /\ data["url"] = a.target_url
               /\ data["status"] = a.state
               /\ a.percent # None => data["percent"] = Val(a.percent)
               /\ a.uid # None => data["uid"] = Val(a.uid)

-----------------------------------------------------------------------------
(* Access levels *)

Levels == {"admin", "commit", "ticket", "owner"}
AccessUsers == {"a", "b", "c", "d"}

\* get_project_info: one GET of the project URL; the forge's project info
get_project_info_request(h) == project_api_request(h, <<>>, "GET", NoData)

\* a slip: ticket-level users are counted among those who can merge
who_can_merge_pr_with_ticket(h) ==
    Returned(h, <<>>, <<get_project_info_request(h)>>,
             forge.access_users["admin"] \cup forge.access_users["commit"]
             \cup forge.access_users["ticket"]
             \cup forge.access_users["owner"])

who_can_close_issue_body(h) ==
    Returned(h, <<>>, <<get_project_info_request(h)>>,
             ((({} \cup forge.access_users["admin"])
               \cup forge.access_users["commit"])
              \cup forge.access_users["ticket"])
             \cup forge.access_users["owner"])

who_can_merge_pr_body(h) ==
    Returned(h, <<>>, <<get_project_info_request(h)>>,
             (({} \cup forge.access_users["admin"])
              \cup forge.access_users["commit"])
             \cup forge.access_users["owner"])

who_can_close_issue ==
    /\ pc = "idle"
    /\ Finish("who_can_close_issue", who_can_close_issue_body(handle))
    /\ handle' = after_project_url(handle, TRUE)
    /\ UNCHANGED <<read_only, forge, pc, frame>>

who_can_merge_pr ==
    /\ pc = "idle"
    /\ Finish("who_can_merge_pr", who_can_merge_pr_body(handle))
    /\ handle' = after_project_url(handle, TRUE)
    /\ UNCHANGED <<read_only, forge, pc, frame>>

can_merge_pr(username) ==
    /\ pc = "idle"
    /\ Finish("can_merge_pr",
              LET c == who_can_merge_pr_body(handle)
              IN  Returned(handle, username, c.sent, username \in c.value))
    /\ handle' = after_project_url(handle, TRUE)
    /\ UNCHANGED <<read_only, forge, pc, frame>>

InitAccess ==
    /\ read_only = FALSE
    /\ handle = HandleDefault
    /\ forge \in {[ForgeDefault EXCEPT !.access_users = au] :
                     au \in [Levels -> SubsetsUpTo(AccessUsers, MaxAccess)]}
    /\ calls = [m \in Methods |-> NoCall]
    /\ posted = {}
    /\ pc = "idle"
    /\ frame = None

NextAccess ==
    \/ who_can_close_issue
    \/ who_can_merge_pr
    \/ \E u \in {"a", "c"} : can_merge_pr(u)

SpecAccess == InitAccess /\ [][NextAccess]_vars

CloseCall == calls["who_can_close_issue"]
MergeCall == calls["who_can_merge_pr"]

\* the users listed at the given levels of the forge's project info
ListedAt(levels) ==
    {u \in AccessUsers : \E l \in levels : u \in forge.access_users[l]}

\* C5: who_can_merge_pr() is a subset of who_can_close_issue(); the first is
\* the union of admin, commit and owner, the second the union of all four
\* levels, and a ticket-only user is in the second but not in the first.
C5_MergeWithinClose ==
    /\ CloseCall.done => CloseCall.value = ListedAt(Levels)
    /\ MergeCall.done => MergeCall.value = ListedAt({"admin", "commit", "owner"})
    /\ (CloseCall.done /\ MergeCall.done) =>
           /\ MergeCall.value \subseteq CloseCall.value
           /\ \A u \in ListedAt({"ticket"}) \ ListedAt({"admin", "commit", "owner"}) :
                  u \in CloseCall.value /\ u \notin MergeCall.value

C5_Witness ==
    /\ CloseCall.done /\ MergeCall.done
    /\ forge.access_users =
           [admin |-> {"a"}, commit |-> {"b"}, ticket |-> {"c"}, owner |-> {"d"}]
    /\ CloseCall.value = {"a", "b", "c", "d"}
    /\ MergeCall.value = {"a", "b", "d"}

-----------------------------------------------------------------------------
(* Tags *)

TagNames == {"v1", "v2", "v1.0"}
Shas == {"abc123", "def456"}

GitTag(name, commit_sha) == [name |-> name, commit_sha |-> commit_sha]

\* the forge's {"tags": {name: sha}} in the order of its items: a sequence
\* of <<name, sha>> with no name twice
TagResponses ==
    {t \in SeqUpTo(TagNames \X Shas, MaxTags) :
        \A i, j \in 1..Len(t) : i # j => t[i][1] # t[j][1]}

\* no method is given: the service's default, a GET
tags_request(h) ==
    project_api_request(h, <<"git", "tags">>, "GET", NoData)

get_tags_value(tags) == [i \in 1..Len(tags) |-> GitTag(tags[i][1], tags[i][2])]

get_tags_dict_value(tags) ==
    [n \in {tags[i][1] : i \in 1..Len(tags)} |->
        GitTag(n, tags[CHOOSE i \in 1..Len(tags) : tags[i][1] = n][2])]

\* a slip: a missing tag gives no value instead of an error
get_sha_from_tag_no_raise(h, tag_name) ==
    LET tags_dict == get_tags_dict_value(forge.tags)
    IN  IF tag_name \notin DOMAIN tags_dict
        THEN Returned(h, tag_name, <<tags_request(h)>>, None)
        ELSE Returned(h, tag_name, <<tags_request(h)>>,
                      tags_dict[tag_name].commit_sha)

get_sha_from_tag_body(h, tag_name) ==
    LET tags_dict == get_tags_dict_value(forge.tags)
    IN  IF tag_name \notin DOMAIN tags_dict
        THEN Raised(h, tag_name, <<tags_request(h)>>, "PagureAPIException")
        ELSE Returned(h, tag_name, <<tags_request(h)>>,
                      tags_dict[tag_name].commit_sha)

get_tags ==
    /\ pc = "idle"
    /\ Finish("get_tags",
              Returned(handle, <<>>, <<tags_request(handle)>>,
                       get_tags_value(forge.tags)))
    /\ handle' = after_project_url(handle, TRUE)
    /\ UNCHANGED <<read_only, forge, pc, frame>>

get_tags_dict ==
    /\ pc = "idle"
    /\ Finish("get_tags_dict",
              Returned(handle, <<>>, <<tags_request(handle)>>,
                       get_tags_dict_value(forge.tags)))
    /\ handle' = after_project_url(handle, TRUE)
    /\ UNCHANGED <<read_only, forge, pc, frame>>

get_sha_from_tag(tag_name) ==
    /\ pc = "idle"
    /\ Finish("get_sha_from_tag", get_sha_from_tag_body(handle, tag_name))
    /\ handle' = after_project_url(handle, TRUE)
    /\ UNCHANGED <<read_only, forge, pc, frame>>

InitTags ==
    /\ read_only = FALSE
    /\ handle = HandleDefault
    /\ forge \in {[ForgeDefault EXCEPT !.tags = t] : t \in TagResponses}
    /\ calls = [m \in Methods |-> NoCall]
    /\ posted = {}
    /\ pc = "idle"
    /\ frame = None

NextTags ==
    \/ get_tags
    \/ get_tags_dict
    \/ \E n \in TagNames \cup {"nonexistent"} : get_sha_from_tag(n)

SpecTags == InitTags /\ [][NextTags]_vars

ShaCall == calls["get_sha_from_tag"]

\* the positions of tag_name in the forge's tags response
TagAt(tag_name) == {i \in 1..Len(forge.tags) : forge.tags[i][1] = tag_name}

\* C7: get_sha_from_tag(tag_name) returns the SHA the tags response maps
\* tag_name to, the commit_sha of that name's entry in get_tags() and
\* get_tags_dict(); for a name the response lacks it raises the Pagure-API
\* error and returns nothing.
C7_ShaFromTag ==
    ShaCall.done =>
        IF TagAt(ShaCall.args) # {}
        THEN /\ ShaCall.outcome = "return"
             /\ \A i \in TagAt(ShaCall.args) :
                    ShaCall.value = forge.tags[i][2]
             /\ calls["get_tags"].done =>
                    \E i \in 1..Len(calls["get_tags"].value) :
                        /\ calls["get_tags"].value[i].name = ShaCall.args
                        /\ calls["get_tags"].value[i].commit_sha
                               = ShaCall.value
             /\ calls["get_tags_dict"].done =>
                    /\ ShaCall.args \in DOMAIN calls["get_tags_dict"].value
                    /\ calls["get_tags_dict"].value[ShaCall.args].commit_sha
                           = ShaCall.value
        ELSE /\ ShaCall.outcome = "raise"
             /\ ShaCall.value = "PagureAPIException"

C7_Witness ==
    /\ ShaCall.done /\ ShaCall.args = "v1.0"
    /\ forge.tags = <<<<"v2", "def456">>, <<"v1.0", "abc123">>>>
    /\ ShaCall.outcome = "return" /\ ShaCall.value = "abc123"
    /\ calls["get_tags"].done /\ calls["get_tags_dict"].done

-----------------------------------------------------------------------------
(* Raw file content *)

\* the bytes a file may hold: "A", and the two bytes of U+00E9
Bytes == {65, 195, 169}

\* bytes.decode() (UTF-8, strict) on sequences over Bytes: the code points,
\* or None where Python raises UnicodeDecodeError.  One-byte and two-byte
\* forms; a continuation byte alone or a lead byte without its
\* continuation is invalid.
RECURSIVE decode(_)
decode(bs) ==
    IF bs = <<>> THEN Some(<<>>)
    ELSE IF bs[1] < 128
         THEN LET rest == decode(Tail(bs))
              IN  IF rest = None THEN None ELSE Some(<<bs[1]>> \o Val(rest))
    ELSE IF bs[1] >= 194 /\ bs[1] <= 223 /\ Len(bs) >= 2
            /\ bs[2] >= 128 /\ bs[2] <= 191
         THEN LET rest == decode(Tail(Tail(bs)))
              IN  IF rest = None THEN None
                  ELSE Some(<<(bs[1] - 192) * 64 + (bs[2] - 128)>> \o Val(rest))
    ELSE None

\* what call_api_raw does for the raw GET: no response, an error raised, or
\* a response with its reason and content
RawAnswers ==
    {[kind |-> "absent"]}
    \cup {[kind |-> "raise", error |-> e] :
             e \in {"OurPagureRawRequest", "ConnectionError"}}
    \cup {[kind |-> "response", reason |-> r, content |-> c] :
             r \in {"OK", "NOT FOUND"}, c \in SeqUpTo(Bytes, MaxContent)}

raw_request(h, path, ref) ==
    Request("GET", get_project_url(h, <<"raw", ref, "f", path>>, TRUE, FALSE),
            NoData)

\* a slip: a raw-request failure is not caught and surfaces as it is
get_file_content_uncaught(h, path, ref) ==
    LET a == [path |-> path, ref |-> ref]
        sent == <<raw_request(h, path, ref)>>
        raw == forge.raw
    IN  IF raw.kind = "raise" THEN Raised(h, a, sent, raw.error)
        ELSE IF raw.kind = "absent" THEN Raised(h, a, sent, "FileNotFoundError")
        ELSE IF raw.reason = "NOT FOUND"
             THEN Raised(h, a, sent, "FileNotFoundError")
        ELSE IF decode(raw.content) = None
             THEN Raised(h, a, sent, "UnicodeDecodeError")
        ELSE Returned(h, a, sent, Val(decode(raw.content)))

get_file_content_body(h, path, ref) ==
    LET a == [path |-> path, ref |-> ref]
        sent == <<raw_request(h, path, ref)>>
        raw == forge.raw
    IN  IF raw.kind = "raise"
        THEN IF raw.error = "OurPagureRawRequest"
             THEN Raised(h, a, sent, "FileNotFoundError")
             ELSE Raised(h, a, sent, raw.error)
        ELSE IF raw.kind = "absent" THEN Raised(h, a, sent, "FileNotFoundError")
        ELSE IF raw.reason = "NOT FOUND"
             THEN Raised(h, a, sent, "FileNotFoundError")
        ELSE IF decode(raw.content) = None
             THEN Raised(h, a, sent, "UnicodeDecodeError")
        ELSE Returned(h, a, sent, Val(decode(raw.content)))

get_file_content(path, ref) ==
    /\ pc = "idle"
    /\ Finish("get_file_content", get_file_content_body(handle, path, ref))
    /\ handle' = after_project_url(handle, TRUE)
    /\ UNCHANGED <<read_only, forge, pc, frame>>

InitFile ==
    /\ read_only = FALSE
    /\ handle \in {PagureProject("repo", Some("ns"), None, f) : f \in BOOLEAN}
    /\ forge \in {[ForgeDefault EXCEPT !.raw = r] : r \in RawAnswers}
    /\ calls = [m \in Methods |-> NoCall]
    /\ posted = {}
    /\ pc = "idle"
    /\ frame = None

NextFile ==
    \E path \in {"README", "docs/a.md"}, ref \in {"master", "f30"} :
        get_file_content(path, ref)

SpecFile == InitFile /\ [][NextFile]_vars

FileCall == calls["get_file_content"]

\* the call issued one raw GET on <namespace>/<repo>/raw/<ref>/f/<path>
\* under the instance base, not the API base
FileCallOneRawGet ==
    /\ Len(FileCall.sent) = 1
    /\ FileCall.sent[1].method = "GET"
    /\ StrIn(PlainPath(FileCall.self,
                       <<"raw", FileCall.args.ref, "f", FileCall.args.path>>),
             FileCall.sent[1].url)
    /\ ~StrIn("/api/0/", FileCall.sent[1].url)

\* the UTF-8 bytes of a sequence of code points below U+0800
RECURSIVE Utf8(_)
Utf8(cps) ==
    IF cps = <<>> THEN <<>>
    ELSE (IF Head(cps) < 128 THEN <<Head(cps)>>
          ELSE <<192 + (Head(cps) \div 64), 128 + (Head(cps) % 64)>>)
         \o Utf8(Tail(cps))

\* C8 as stated: FileNotFoundError for an absent or NOT FOUND response and
\* for a raw-request error, the decoded content returned otherwise, and no
\* other error kind in these cases.
C8_ThreeOutcomes ==
    (FileCall.done /\ ~(forge.raw.kind = "raise"
                        /\ forge.raw.error # "OurPagureRawRequest")) =>
        /\ FileCallOneRawGet
        /\ IF forge.raw.kind \in {"absent", "raise"}
           THEN FileCall.outcome = "raise"
                /\ FileCall.value = "FileNotFoundError"
           ELSE IF forge.raw.reason = "NOT FOUND"
           THEN FileCall.outcome = "raise"
                /\ FileCall.value = "FileNotFoundError"
           ELSE FileCall.outcome = "return"

\* C8 amended: as stated, except that in the remaining case the content is
\* returned decoded only when it is valid UTF-8; content that is not makes
\* decode() raise UnicodeDecodeError, which the method lets through.
C8_OutcomesWithDecode ==
    (FileCall.done /\ ~(forge.raw.kind = "raise"
                        /\ forge.raw.error # "OurPagureRawRequest")) =>
        /\ FileCallOneRawGet
        /\ IF forge.raw.kind \in {"absent", "raise"}
           THEN FileCall.outcome = "raise"
                /\ FileCall.value = "FileNotFoundError"
           ELSE IF forge.raw.reason = "NOT FOUND"
           THEN FileCall.outcome = "raise"
                /\ FileCall.value = "FileNotFoundError"
           ELSE IF \E i \in 1..Len(forge.raw.content) :
                      \/ forge.raw.content[i] = 169
                            /\ (i = 1 \/ forge.raw.content[i - 1] # 195)
                      \/ forge.raw.content[i] = 195
                            /\ (i = Len(forge.raw.content)
                                \/ forge.raw.content[i + 1] # 169)
           THEN FileCall.outcome = "raise"
                /\ FileCall.value = "UnicodeDecodeError"
           ELSE FileCall.outcome = "return"
                /\ Utf8(FileCall.value) = forge.raw.content

C8_Witness ==
    /\ FileCall.done
    /\ forge.raw = [kind |-> "response", reason |-> "OK", content |-> <<195, 169>>]
    /\ FileCall.outcome = "return" /\ FileCall.value = <<233>>
    /\ FileCall.sent[1].url = "https://h/ns/repo/raw/master/f/README"

-----------------------------------------------------------------------------
(* Fork resolution *)

\* the forks the forge may list for the search pattern "repo": forks of this
\* project and of a project of the same name in another namespace, owned by
\* the session's user or by others
ForkRecords ==
    [name : {"repo"}, namespace : {Some("ns"), Some("other")},
     user : {"al", "alan", "eve"}]

\* the state of the session user's own fork: absent, or present with the
\* parent its project info names (none, one that exists, one that is gone)
ForkStates ==
    {[fork_ok |-> FALSE, fork_parent |-> "none"]}
    \cup {[fork_ok |-> TRUE, fork_parent |-> p] : p \in {"none", "ok", "gone"}}

\* get_forks: one GET of the project search, each hit made a fork handle
get_forks_request(h) ==
    Request("GET", get_api_url(<<Some("projects")>>, TRUE),
            [fork |-> TRUE, pattern |-> h.repo])

get_forks_value(projects) ==
    [i \in 1..Len(projects) |->
        PagureProject(projects[i].name, projects[i].namespace,
                      Some(projects[i].user), TRUE)]

\* fork_info["user"]["name"] of a listed fork: its owner on the forge
fork_owner(fork) == Val(fork.username)

\* the loop of get_fork: the index of the first listed fork whose owner's
\* name contains the user's, 0 when there is none
scan_match(h, forks) ==
    LET hits == {i \in 1..Len(forks) : StrIn(user_of(h), fork_owner(forks[i]))}
    IN  IF hits = {} THEN 0 ELSE CHOOSE i \in hits : \A j \in hits : i <= j

\* the requests of the scan: the search, then the project info of each
\* listed fork up to the one returned
scan_requests(h, forks) ==
    LET m == scan_match(h, forks)
        last == IF m = 0 THEN Len(forks) ELSE m
    IN  <<get_forks_request(h)>>
        \o [i \in 1..last |-> get_project_info_request(forks[i])]

\* exists(): one raw GET of the project URL
exists_request(h) == Request("GET", get_project_url(h, <<>>, TRUE, TRUE), NoData)

\* the parent property of the fork f of h: a handle of the same repo in the
\* parent's namespace
parent_of(h) == PagureProject(h.repo, h.namespace, None, FALSE)

\* is_forked(): f.exists() and f.parent.exists(), with the requests issued;
\* a fork whose info names no parent has parent None, and None.exists()
\* is an AttributeError
is_forked(h) ==
    LET f == _construct_fork_project(h)
    IN  IF ~forge.fork_ok
        THEN [sent |-> <<exists_request(f)>>, outcome |-> "return",
              value |-> FALSE]
        ELSE IF forge.fork_parent = "none"
        THEN [sent |-> <<exists_request(f), get_project_info_request(f)>>,
              outcome |-> "raise", value |-> "AttributeError"]
        ELSE [sent |-> <<exists_request(f), get_project_info_request(f),
                         get_project_info_request(f),
                         exists_request(parent_of(h))>>,
              outcome |-> "return", value |-> forge.fork_parent = "ok"]

\* a slip: the fork is created whenever the probe finds none, asked or not
get_fork_decide_always_create(h, forked, create) ==
    IF ~forked
    THEN if_readonly(
             [sent |-> fork_create_body(h).sent,
              value |-> Some(fork_create_body(h).value)],
             [sent |-> <<>>,
              value |-> Some(ReadOnlyResult("fork_create", h, <<>>).value)])
    ELSE [sent |-> <<>>, value |-> Some(_construct_fork_project(h))]

\* the end of get_fork, after the probe
get_fork_decide(h, forked, create) ==
    IF ~forked
    THEN IF create
         THEN if_readonly(
                  [sent |-> fork_create_body(h).sent,
                   value |-> Some(fork_create_body(h).value)],
                  [sent |-> <<>>,
                   value |-> Some(ReadOnlyResult("fork_create", h, <<>>).value)])
         ELSE [sent |-> <<>>, value |-> None]
    ELSE [sent |-> <<>>, value |-> Some(_construct_fork_project(h))]

\* the arguments and locals a finished get_fork call is recorded with
ForkArgs(create, found, forked) ==
    [create |-> create, found |-> found, forked |-> forked]

\* a slip: the fork check is missing and the call goes on to the scan
get_fork_unchecked(create) ==
    /\ pc = "idle"
    /\ pc' = "scan"
    /\ frame' = Some([create |-> create, self |-> handle, sent |-> <<>>,
                      forked |-> None])
    /\ UNCHANGED <<read_only, handle, forge, calls, posted>>

\* get_fork(create): the call, up to the fork check
get_fork(create) ==
    /\ pc = "idle"
    /\ IF handle.is_fork
       THEN /\ Finish("get_fork",
                      Raised(handle, ForkArgs(create, None, None), <<>>,
                             "OgrException"))
            /\ UNCHANGED <<pc, frame>>
       ELSE /\ pc' = "scan"
            /\ frame' = Some([create |-> create, self |-> handle,
                              sent |-> <<>>, forked |-> None])
            /\ UNCHANGED <<calls, posted>>
    /\ UNCHANGED <<read_only, handle, forge>>

\* the scan of the listed forks
get_fork_scan ==
    /\ pc = "scan"
    /\ LET fr == Val(frame)
           forks == get_forks_value(forge.projects)
           m == scan_match(handle, forks)
       IN  /\ handle' = IF forks = <<>> THEN handle ELSE user_cached(handle)
           /\ IF m # 0
              THEN /\ Finish("get_fork",
                             Returned(fr.self,
                                      ForkArgs(fr.create, Some(m), None),
                                      scan_requests(handle, forks),
                                      Some(forks[m])))
                   /\ pc' = "idle"
                   /\ frame' = None
              ELSE /\ pc' = "probe"
                   /\ frame' = Some([fr EXCEPT
                                        !.sent = scan_requests(handle, forks)])
                   /\ UNCHANGED <<calls, posted>>
    /\ UNCHANGED <<read_only, forge>>

\* the is_forked() probe
get_fork_probe ==
    /\ pc = "probe"
    /\ LET fr == Val(frame)
           probe == is_forked(handle)
       IN  /\ handle' = user_cached(handle)
           /\ IF probe.outcome = "raise"
              THEN /\ Finish("get_fork",
                             Raised(fr.self, ForkArgs(fr.create, None, None),
                                    fr.sent \o probe.sent, probe.value))
                   /\ pc' = "idle"
                   /\ frame' = None
              ELSE /\ pc' = "decide"
                   /\ frame' = Some([fr EXCEPT
                                        !.sent = fr.sent \o probe.sent,
                                        !.forked = Some(probe.value)])
                   /\ UNCHANGED <<calls, posted>>
    /\ UNCHANGED <<read_only, forge>>

\* create the fork, skip, or construct the handle of the existing fork
get_fork_finish ==
    /\ pc = "decide"
    /\ LET fr == Val(frame)
           end == get_fork_decide(handle, Val(fr.forked), fr.create)
       IN  Finish("get_fork",
                  Returned(fr.self, ForkArgs(fr.create, None, fr.forked),
                           fr.sent \o end.sent, end.value))
    /\ pc' = "idle"
    /\ frame' = None
    /\ UNCHANGED <<read_only, handle, forge>>

InitFork ==
    /\ read_only \in BOOLEAN
    /\ handle \in {PagureProject("repo", Some("ns"), None, f) : f \in BOOLEAN}
    /\ forge \in {[ForgeDefault EXCEPT !.user = u, !.projects = p,
                                       !.fork_ok = s.fork_ok,
                                       !.fork_parent = s.fork_parent] :
                     u \in Users,
                     p \in DistinctSeqUpTo(ForkRecords, MaxForks),
                     s \in ForkStates}
    /\ calls = [m \in Methods |-> NoCall]
    /\ posted = {}
    /\ pc = "idle"
    /\ frame = None

NextFork ==
    \/ \E create \in BOOLEAN : get_fork(create)
    \/ get_fork_scan
    \/ get_fork_probe
    \/ get_fork_finish

SpecFork == InitFork /\ [][NextFork]_vars

ForkCall == calls["get_fork"]

\* the indices of the POST requests among sent
PostsIn(sent) == {i \in 1..Len(sent) : sent[i].method = "POST"}

\* the forge lists a fork whose owner's name contains the session user's
ScanFinds ==
    \E i \in 1..Len(forge.projects) :
        \E k \in 0..Len(forge.projects[i].user) :
            \E l \in 0..k :
                SubSeq(forge.projects[i].user, l + 1, k) = forge.user

\* the answer of the is_forked() probe, when it gives one
ProbeAnswers == ~forge.fork_ok \/ forge.fork_parent # "none"
ProbeTrue == forge.fork_ok /\ forge.fork_parent = "ok"

SearchUrl == "https://h/api/0/projects"
ForkPostUrl == "https://h/api/0/fork"

C9_ForkSteps ==
    /\ pc = "probe" =>
           /\ ~ScanFinds
           /\ Val(frame).sent[1].url = SearchUrl
           /\ Len(Val(frame).sent) = 1 + Len(forge.projects)
           /\ Val(frame).forked = None
    /\ pc = "decide" =>
           /\ ~ScanFinds /\ ProbeAnswers
           /\ Val(frame).forked = Some(ProbeTrue)
           /\ Len(Val(frame).sent) > 1 + Len(forge.projects)
    /\ pc # "idle" => PostsIn(Val(frame).sent) = {}
    /\ (ForkCall.done /\ ~ForkCall.self.is_fork) =>
           /\ PostsIn(ForkCall.sent) # {} =>
                  /\ ~ScanFinds /\ ProbeAnswers /\ ~ProbeTrue
                  /\ ForkCall.args.create
                  /\ PostsIn(ForkCall.sent) = {Len(ForkCall.sent)}
                  /\ ForkCall.sent[Len(ForkCall.sent)].url = ForkPostUrl
                  /\ ForkCall.sent[1].url = SearchUrl
           /\ (~ScanFinds /\ ProbeAnswers /\ ~ProbeTrue
                 /\ ~ForkCall.args.create) =>
                  /\ ForkCall.outcome = "return"
                  /\ ForkCall.value = None
                  /\ PostsIn(ForkCall.sent) = {}
           /\ (~ScanFinds /\ ProbeTrue) =>
                  /\ ForkCall.outcome = "return"
                  /\ ForkCall.value =
                         Some([repo |-> ForkCall.self.repo,
                               namespace |-> ForkCall.self.namespace,
                               username |-> Some(forge.user),
                               is_fork |-> TRUE])
                  /\ PostsIn(ForkCall.sent) = {}
    /\ posted \subseteq {ForkPostUrl}
    /\ posted # {} => ForkCall.done

C9_Witness ==
    /\ ForkCall.done /\ ~ForkCall.self.is_fork
    /\ forge.projects # <<>> /\ ~ScanFinds
    /\ ~forge.fork_ok /\ ForkCall.args.create
    /\ PostsIn(ForkCall.sent) = {Len(ForkCall.sent)}
    /\ Len(ForkCall.sent) = 3 + Len(forge.projects)
    /\ posted = {ForkPostUrl}

\* C10: a handle returned by get_fork on a non-fork handle is the session
\* user's fork of this project: is_fork, the same repo and namespace, and
\* the authenticated user's name as username.
C10_ReturnsOwnFork ==
    (ForkCall.done /\ ~ForkCall.self.is_fork /\ ForkCall.outcome = "return"
        /\ ForkCall.value # None /\ "repo" \in DOMAIN Val(ForkCall.value)) =>
        /\ Val(ForkCall.value).is_fork
        /\ Val(ForkCall.value).repo = ForkCall.self.repo
        /\ Val(ForkCall.value).namespace = ForkCall.self.namespace
        /\ Val(ForkCall.value).username = Some(forge.user)

====
